---- MODULE Spec2Model ----
(***************************************************************************)
(* A model of gch, the fuzzy git branch checkout helper: the scorer        *)
(* (calcMatchScore), the ranker (sortMatches), the decision policy of      *)
(* SmartCheckout and the interactive selector (branchModel.Update with its *)
(* nested stashPromptModel), run by the bubbletea event loop.              *)
(*                                                                         *)
(* Go strings are sequences of one-character strings.                      *)
(***************************************************************************)
EXTENDS Integers, Sequences, FiniteSets, Bags, TLC

VARIABLES
    sBranch,    \* scorer harness: the branch name under evaluation
    sPattern,   \* scorer harness: the pattern under evaluation
    sScore,     \* scorer harness: result of the first evaluation
    sScore2,    \* scorer harness: result of the second evaluation
    sPc,        \* scorer harness: "input" | "scored" | "rescored"
    rInput,     \* ranker harness: the matches handed to sortMatches
    rSorted,    \* ranker harness: the slice after sortMatches
    rSorted2,   \* ranker harness: the slice after sortMatches in a second
                \* run, which lists the same matches in some order
    rPc,        \* ranker harness: "input" | "sorted" | "resorted"
    localBranches,   \* merge harness: the names getBranches(false) returned
    remoteBranches,  \* merge harness: the names getBranches(true) returned
    currentBranch,   \* merge harness: the name getCurrentBranch returned
    result,          \* merge harness: the slice getAllBranches returned
    gPc,             \* merge harness: "input" | "merged"
    pattern,       \* command line: the pattern argument
    createBranch,  \* command line: -b
    force,         \* command line: -f
    stash,         \* command line: -s
    headOk,        \* repository: git rev-parse --abbrev-ref HEAD succeeds
    localNames,    \* repository: names listed by git branch
    remoteNames,   \* repository: names listed by git branch -r, origin/ stripped
    pc,            \* position of the run: "start" | "fetch" | "winner" |
                   \* "prompt" | "selector" | "exited"
    firstPass,     \* number of matches of the first scoring pass, -1 before it
    matches,       \* SmartCheckout: the ranked matches
    decision,      \* branch taken at the decision: "none" | "winner" | "selector"
    cmds,          \* git commands executed so far, with their outcomes
    err,           \* error returned by SmartCheckout ("nil" for none)
    exitCode,      \* process exit status, -1 while running
    prompt,        \* the stashPromptModel run by promptForStash
    model,         \* the branchModel run by the selector program
    inflight,      \* bubbletea: goroutines blocked sending messages to the
                   \* event loop, each with the messages it still has to send
    lateKeys       \* bubbletea: keys the event loop took while such a
                   \* goroutine was waiting

scoreVars == <<sBranch, sPattern, sScore, sScore2, sPc>>
rankVars == <<rInput, rSorted, rSorted2, rPc>>
mergeVars == <<localBranches, remoteBranches, currentBranch, result, gPc>>
inputVars == <<pattern, createBranch, force, stash, headOk, localNames>>
runVars == <<remoteNames, pc, firstPass, matches, decision, cmds, err,
             exitCode, prompt, model, inflight, lateKeys>>

vars == <<sBranch, sPattern, sScore, sScore2, sPc, rInput, rSorted, rSorted2,
          rPc, localBranches, remoteBranches, currentBranch, result, gPc,
          pattern, createBranch, force, stash, headOk, localNames,
          remoteNames, pc, firstPass, matches, decision, cmds, err,
          exitCode, prompt, model, inflight, lateKeys>>

----------------------------------------------------------------------------
(* Bounds of the scorer harness *)

MaxBranchLen == 3
MaxPatLen == 2

(* Bounds of the ranker harness *)

MaxMatches == 3
MaxScore == 3

(* Bounds of the merge harness *)

MaxListed == 2     \* names in the local list and in the remote list

(* Bounds of the checkout run *)

MaxBranches == 2   \* branches in the repository
MaxQuery == 1      \* characters typed into the selector's filter
MaxCmds == 3       \* git commands executed by one selector program
MaxInflight == 2   \* goroutines blocked on the event loop
MaxLateKeys == 1   \* keys taken ahead of a waiting goroutine's message

----------------------------------------------------------------------------
(* Values of the parts of the state a harness does not use *)

Nil == [nil |-> TRUE]

ScorerIdle ==
    /\ sBranch = <<>>
    /\ sPattern = <<>>
    /\ sScore = 0
    /\ sScore2 = 0
    /\ sPc = "idle"

RankerIdle ==
    /\ rInput = <<>>
    /\ rSorted = <<>>
    /\ rSorted2 = <<>>
    /\ rPc = "idle"

MergerIdle ==
    /\ localBranches = <<>>
    /\ remoteBranches = <<>>
    /\ currentBranch = <<>>
    /\ result = <<>>
    /\ gPc = "idle"

RunIdle ==
    /\ pattern = <<>>
    /\ createBranch = FALSE
    /\ force = FALSE
    /\ stash = FALSE
    /\ headOk = TRUE
    /\ localNames = {}
    /\ remoteNames = {}
    /\ pc = "idle"
    /\ firstPass = -1
    /\ matches = <<>>
    /\ decision = "none"
    /\ cmds = <<>>
    /\ err = "nil"
    /\ exitCode = -1
    /\ prompt = Nil
    /\ model = Nil
    /\ inflight = EmptyBag
    /\ lateKeys = 0

----------------------------------------------------------------------------
(* Go string helpers *)

UpperChars == <<"A","B","C","D","E","F","G","H","I","J","K","L","M",
                "N","O","P","Q","R","S","T","U","V","W","X","Y","Z">>
LowerChars == <<"a","b","c","d","e","f","g","h","i","j","k","l","m",
                "n","o","p","q","r","s","t","u","v","w","x","y","z">>
DigitChars == <<"0","1","2","3","4","5","6","7","8","9">>

\* strings.ToLower on one byte
LowerChar(c) ==
    IF \E i \in 1..26 : UpperChars[i] = c
    THEN LowerChars[CHOOSE i \in 1..26 : UpperChars[i] = c]
    ELSE c

\* strings.ToLower
ToLower(s) == [i \in 1..Len(s) |-> LowerChar(s[i])]

\* strings.Contains
Contains(s, sub) ==
    \E i \in 0..(Len(s) - Len(sub)) : SubSeq(s, i + 1, i + Len(sub)) = sub

\* strings.HasSuffix
HasSuffix(s, suffix) ==
    /\ Len(s) >= Len(suffix)
    /\ SubSeq(s, Len(s) - Len(suffix) + 1, Len(s)) = suffix

\* strings.HasPrefix
HasPrefix(s, prefix) ==
    /\ Len(s) >= Len(prefix)
    /\ SubSeq(s, 1, Len(prefix)) = prefix

IsDigit(c) == \E i \in 1..10 : DigitChars[i] = c
DigitVal(c) == (CHOOSE i \in 1..10 : DigitChars[i] = c) - 1

RECURSIVE DigitsValue(_)
DigitsValue(ds) ==
    IF Len(ds) = 0 THEN 0
    ELSE 10 * DigitsValue(SubSeq(ds, 1, Len(ds) - 1)) + DigitVal(ds[Len(ds)])

\* strconv.Atoi: an optional sign followed by one or more decimal digits.
\* (Lengths here stay far below the 19 digits at which Atoi reports a range
\* error.)
AtoiDigits(s) ==
    IF Len(s) > 0 /\ s[1] \in {"+", "-"} THEN SubSeq(s, 2, Len(s)) ELSE s
AtoiOk(s) ==
    /\ Len(AtoiDigits(s)) > 0
    /\ \A i \in 1..Len(AtoiDigits(s)) : IsDigit(AtoiDigits(s)[i])
AtoiNum(s) ==
    IF Len(s) > 0 /\ s[1] = "-"
    THEN 0 - DigitsValue(AtoiDigits(s))
    ELSE DigitsValue(AtoiDigits(s))

RECURSIVE NatDigits(_)
NatDigits(n) ==
    IF n < 10 THEN <<DigitChars[n + 1]>>
    ELSE NatDigits(n \div 10) \o <<DigitChars[(n % 10) + 1]>>

\* strconv.Itoa
Itoa(n) == IF n < 0 THEN <<"-">> \o NatDigits(0 - n) ELSE NatDigits(n)

----------------------------------------------------------------------------
(* The scorer *)

\* containsSubsequence: the scan loop, from position i of s with idx
\* characters of subseq found so far.  The loop skips to the next position
\* of s that holds subseq[idx], counts it, and goes on behind it.
RECURSIVE subseqScan(_, _, _, _)
subseqScan(s, subseq, i, idx) ==
    IF idx >= Len(subseq) THEN idx
    ELSE LET hits == {j \in i..Len(s) : s[j] = subseq[idx + 1]}
         IN  IF hits = {} THEN idx
             ELSE subseqScan(s, subseq,
                             (CHOOSE j \in hits : \A k \in hits : j <= k) + 1,
                             idx + 1)

containsSubsequence(s, subseq) ==
    IF Len(subseq) = 0 THEN TRUE
    ELSE subseqScan(s, subseq, 1, 0) = Len(subseq)

\* The commonBranches table.
commonBranches == <<
    [name |-> <<"m","a","s","t","e","r">>,                 bonus |-> 50],
    [name |-> <<"m","a","i","n">>,                         bonus |-> 50],
    [name |-> <<"d","e","v","e","l","o","p">>,             bonus |-> 40],
    [name |-> <<"d","e","v">>,                             bonus |-> 40],
    [name |-> <<"p","r","o","d","u","c","t","i","o","n">>, bonus |-> 40],
    [name |-> <<"p","r","o","d">>,                         bonus |-> 40],
    [name |-> <<"s","t","a","g","i","n","g">>,             bonus |-> 30],
    [name |-> <<"s","t","a","g","e">>,                     bonus |-> 30],
    [name |-> <<"t","e","s","t">>,                         bonus |-> 20] >>

\* Go iterates a map in an unspecified order: an iteration order is a
\* sequence of indices into the table.  The table order and its reverse put
\* every two entries in both relative orders.
TableOrder == [i \in 1..Len(commonBranches) |-> i]
ReverseOrder == [i \in 1..Len(commonBranches) |-> Len(commonBranches) + 1 - i]
IterationOrders == {TableOrder, ReverseOrder}

\* One iteration of the range loop over commonBranches.
commonStepBreakOnContains(score, entry, branchLower, patternLower) ==
    IF Contains(entry.name, patternLower)
    THEN [score |-> score + entry.bonus, stop |-> TRUE]
    ELSE [score |-> score, stop |-> FALSE]

commonStep(score, entry, branchLower, patternLower) ==
    IF branchLower = entry.name /\ Contains(entry.name, patternLower)
    THEN [score |-> score + entry.bonus, stop |-> FALSE]
    ELSE [score |-> score, stop |-> FALSE]

\* The range loop over commonBranches, visiting the entries in `order`.
RECURSIVE commonLoop(_, _, _, _, _)
commonLoop(score, order, k, branchLower, patternLower) ==
    IF k > Len(order) THEN score
    ELSE LET r == commonStep(score, commonBranches[order[k]],
                             branchLower, patternLower)
         IN  IF r.stop THEN r.score
             ELSE commonLoop(r.score, order, k + 1, branchLower, patternLower)

\* The exact-match short circuit.
exactMatchCaseSensitive(branch, pat) == branch = pat

exactMatch(branch, pat) == ToLower(branch) = ToLower(pat)

\* The ticket-number block: hit = TRUE when the function returns from it.
numericAdditive(branch, pat) ==
    [hit |-> FALSE,
     score |-> IF AtoiOk(pat)
               THEN (IF Contains(branch, <<"#">> \o pat) THEN 600 ELSE 0)
                    + (IF Contains(branch, Itoa(AtoiNum(pat)))
                       THEN 400 ELSE 0)
               ELSE 0]

numericRule(branch, pat) ==
    IF AtoiOk(pat)
    THEN IF Contains(branch, <<"#">> \o pat)
         THEN [hit |-> TRUE, score |-> 600]
         ELSE IF Contains(branch, Itoa(AtoiNum(pat)))
              THEN [hit |-> TRUE, score |-> 400]
              ELSE [hit |-> FALSE, score |-> 0]
    ELSE [hit |-> FALSE, score |-> 0]

suffixBonus(branchLower, patternLower) ==
    IF HasSuffix(branchLower, patternLower) THEN 1000 ELSE 0

prefixBonusUnlessSuffix(branchLower, patternLower) ==
    IF HasSuffix(branchLower, patternLower) THEN 0
    ELSE IF HasPrefix(branchLower, patternLower) THEN 500 ELSE 0

prefixBonus(branchLower, patternLower) ==
    IF HasPrefix(branchLower, patternLower) THEN 500 ELSE 0

tokenBonusBothSides(branchLower, patternLower) ==
    IF Contains(branchLower, <<"/">> \o patternLower \o <<"/">>)
    THEN 300 ELSE 0

tokenBonus(branchLower, patternLower) ==
    IF \/ Contains(branchLower, <<"/">> \o patternLower \o <<"/">>)
       \/ Contains(branchLower, <<"/">> \o patternLower)
       \/ Contains(branchLower, patternLower \o <<"/">>)
    THEN 300 ELSE 0

subsequenceBonus(branchLower, patternLower) ==
    IF containsSubsequence(branchLower, patternLower) THEN 250 ELSE 0

substringBonus(branchLower, patternLower) ==
    IF Contains(branchLower, patternLower) THEN 100 ELSE 0

lengthPenaltyAdded(branch) == 0 - (Len(branch) \div 5)

lengthPenalty(branch) == Len(branch) \div 5

\* calcMatchScore, with the iteration order of the commonBranches map made
\* explicit.
calcMatchScoreIn(branch, pat, order) ==
    LET branchLower == ToLower(branch)
        patternLower == ToLower(pat)
        num == numericRule(branch, pat)
    IN  IF exactMatch(branch, pat) THEN 10000
        ELSE IF num.hit THEN num.score
        ELSE commonLoop(num.score
                          + suffixBonus(branchLower, patternLower)
                          + prefixBonus(branchLower, patternLower)
                          + tokenBonus(branchLower, patternLower)
                          + subsequenceBonus(branchLower, patternLower)
                          + substringBonus(branchLower, patternLower)
                          - lengthPenalty(branch),
                        order, 1, branchLower, patternLower)

calcMatchScore(branch, pat) == calcMatchScoreIn(branch, pat, TableOrder)

----------------------------------------------------------------------------
(* Scorer harness: evaluate calcMatchScore twice on one (branch, pattern).  *)

Alphabet == {"a", "A", "1", "0", "#", "/"}

StringsUpTo(n) == UNION {[1..k -> Alphabet] : k \in 1..n}

NamedBranches == {
    <<"m","a","i","n">>,
    <<"M","a","i","n">>,
    <<"d","e","v">>,
    <<"t","e","s","t">>,
    <<"s","t","a","g","e">>,
    <<"o","r","i","g","i","n","/","m","a","i","n">>,
    <<"f","i","x","/","#","1","2","3","-","b","u","g">>,
    <<"f","i","x","-","1","2","3">>,
    <<"x","-","0","7">> }

NamedPatterns == {
    <<"m","a">>,
    <<"m","a","i","n">>,
    <<"e">>,
    <<"d","e","v">>,
    <<"1","2","3">>,
    <<"-","0","7">> }

ScoreInit ==
    /\ sBranch \in StringsUpTo(MaxBranchLen) \cup NamedBranches
    /\ sPattern \in StringsUpTo(MaxPatLen) \cup NamedPatterns
    /\ sScore = 0
    /\ sScore2 = 0
    /\ sPc = "input"
    /\ RankerIdle
    /\ MergerIdle
    /\ RunIdle

\* First evaluation.
Score ==
    /\ sPc = "input"
    /\ \E order \in IterationOrders :
           sScore' = calcMatchScoreIn(sBranch, sPattern, order)
    /\ sPc' = "scored"
    /\ UNCHANGED <<sBranch, sPattern, sScore2>>
    /\ UNCHANGED <<rankVars, mergeVars, inputVars, runVars>>

\* Second evaluation of the same inputs.
Rescore ==
    /\ sPc = "scored"
    /\ \E order \in IterationOrders :
           sScore2' = calcMatchScoreIn(sBranch, sPattern, order)
    /\ sPc' = "rescored"
    /\ UNCHANGED <<sBranch, sPattern, sScore>>
    /\ UNCHANGED <<rankVars, mergeVars, inputVars, runVars>>

ScoreNext == Score \/ Rescore

ScoreSpec == ScoreInit /\ [][ScoreNext]_vars

----------------------------------------------------------------------------
(* The ranker *)

\* The less function handed to sort.Slice; a and b are branchMatch values.
lessScoreOnly(a, b) == a.score > b.score

less(a, b) ==
    IF a.score = b.score
    THEN a.isLocal /\ ~b.isLocal
    ELSE a.score > b.score

swap(seq, i, j) ==
    [seq EXCEPT ![i] = seq[j], ![j] = seq[i]]

\* sort.Slice sorts a slice of at most 12 elements by insertion sort: the
\* inner loop moves element j to the left while it is less than its left
\* neighbour.
RECURSIVE insertLeft(_, _)
insertLeft(seq, j) ==
    IF j > 1 /\ less(seq[j], seq[j - 1])
    THEN insertLeft(swap(seq, j, j - 1), j - 1)
    ELSE seq

RECURSIVE insertionSort(_, _)
insertionSort(seq, i) ==
    IF i > Len(seq) THEN seq
    ELSE insertionSort(insertLeft(seq, i), i + 1)

sortMatchesKeepsOrder(ms) == ms

sortMatches(ms) == insertionSort(ms, 2)

----------------------------------------------------------------------------
(* Ranker harness: sortMatches on every short sequence of matches with      *)
(* distinct names and positive scores.                                      *)

RankInit ==
    /\ \E n \in 1..MaxMatches :
         \E f \in [1..n -> [isLocal : BOOLEAN, score : 1..MaxScore]] :
            rInput = [i \in 1..n |->
                        [name |-> <<"b", DigitChars[i + 1]>>,
                         isLocal |-> f[i].isLocal,
                         score |-> f[i].score]]
    /\ rSorted = <<>>
    /\ rSorted2 = <<>>
    /\ rPc = "input"
    /\ ScorerIdle
    /\ MergerIdle
    /\ RunIdle

Rank ==
    /\ rPc = "input"
    /\ rSorted' = sortMatches(rInput)
    /\ rPc' = "sorted"
    /\ UNCHANGED <<rInput, rSorted2>>
    /\ UNCHANGED <<scoreVars, mergeVars, inputVars, runVars>>

\* The slice getAllBranches builds by ranging over its map comes in any order.
Orderings(S) ==
    {f \in [1..Cardinality(S) -> S] :
        \A i, j \in 1..Cardinality(S) : i # j => f[i] # f[j]}

\* The elements of a slice.
Elems(seq) == {seq[i] : i \in 1..Len(seq)}

\* A second run over the same matches: getAllBranches ranges over its map, so
\* the scoring loop appends the matches in any order before sortMatches.
Rerank ==
    /\ rPc = "sorted"
    /\ \E listed \in Orderings(Elems(rInput)) :
           rSorted2' = sortMatches(listed)
    /\ rPc' = "resorted"
    /\ UNCHANGED <<rInput, rSorted>>
    /\ UNCHANGED <<scoreVars, mergeVars, inputVars, runVars>>

RankNext == Rank \/ Rerank

RankSpec == RankInit /\ [][RankNext]_vars

----------------------------------------------------------------------------
(* getAllBranches with its Current flag *)

\* branchMap[b.name] = b
put(bm, b) == {x \in bm : x.name # b.name} \cup {b}

\* _, exists := branchMap[name]
exists(bm, name) == \E x \in bm : x.name = name

\* The first loop of getAllBranches: every local name is entered as a local
\* branch, current when it is the current branch.
RECURSIVE addLocal(_, _, _)
addLocal(bm, names, cur) ==
    IF names = <<>> THEN bm
    ELSE addLocal(put(bm, [name |-> Head(names), isLocal |-> TRUE,
                           current |-> Head(names) = cur]),
                  Tail(names), cur)

\* The body of the second loop: a remote name is entered as a remote-only
\* branch unless the map holds the name already.
addRemoteOverwrites(bm, name) ==
    put(bm, [name |-> name, isLocal |-> FALSE, current |-> FALSE])

addRemote(bm, name) ==
    IF exists(bm, name) THEN bm
    ELSE put(bm, [name |-> name, isLocal |-> FALSE, current |-> FALSE])

RECURSIVE addRemotes(_, _)
addRemotes(bm, names) ==
    IF names = <<>> THEN bm
    ELSE addRemotes(addRemote(bm, Head(names)), Tail(names))

\* The map of getAllBranches after both loops.
branchMap(locals, remotes, cur) ==
    addRemotes(addLocal({}, locals, cur), remotes)

----------------------------------------------------------------------------
(* Merge harness: getAllBranches on short lists of names.  git lists no     *)
(* name twice, and HEAD names a local branch or is detached ("HEAD").       *)

nameHead == <<"H", "E", "A", "D">>
nameDev == <<"d", "e", "v">>
nameMain == <<"m", "a", "i", "n">>
nameFix == <<"f", "i", "x">>

ListedNames == {nameDev, nameMain, nameFix}

\* The lists of at most n distinct names.
ListsUpTo(n) ==
    UNION {Orderings(S) : S \in {T \in SUBSET ListedNames : Cardinality(T) <= n}}

MergeInit ==
    /\ localBranches \in ListsUpTo(MaxListed)
    /\ remoteBranches \in ListsUpTo(MaxListed)
    /\ currentBranch \in Elems(localBranches) \cup {nameHead}
    /\ result = <<>>
    /\ gPc = "input"
    /\ ScorerIdle
    /\ RankerIdle
    /\ RunIdle

\* getAllBranches: fill the map, then range over it, in any order.
Merge ==
    /\ gPc = "input"
    /\ result' \in Orderings(branchMap(localBranches, remoteBranches,
                                       currentBranch))
    /\ gPc' = "merged"
    /\ UNCHANGED <<localBranches, remoteBranches, currentBranch>>
    /\ UNCHANGED <<scoreVars, rankVars, inputVars, runVars>>

MergeNext == Merge

MergeSpec == MergeInit /\ [][MergeNext]_vars

----------------------------------------------------------------------------
(* The repository a run starts in *)

nameAX == <<"a", "x">>
nameToken == <<"x", "/", "a", "x">>
nameLong == [i \in 1..125 |-> IF i = 2 THEN "a" ELSE "x"]
nameX == <<"x">>
nameMiss == <<"x", "x", "x", "x", "x">>

\* Names that can be local branches, and names that origin can hold.
LocalNames == {nameAX, nameToken, nameX, nameMiss}
RemoteNames == {nameToken, nameLong}
Patterns == {<<"a">>, <<"x">>}

\* Outcomes of a git checkout: done; refused because local changes or
\* untracked files would be overwritten; failed for another reason.
CheckoutResults == {"ok", "overwrite", "other"}
\* Outcomes of git stash push and git fetch.
ExecResults == {"ok", "other"}
\* Outcomes of a git checkout with or without -f: a forced checkout is never
\* refused for local changes.
CheckoutResultsFor(forced) ==
    IF forced THEN {"ok", "other"} ELSE CheckoutResults

----------------------------------------------------------------------------
(* getAllBranches and the scoring loop *)

\* getAllBranches: the local names, then the remote names that have no local
\* counterpart.
getAllBranches(locals, remotes) ==
    {[name |-> n, isLocal |-> TRUE] : n \in locals}
      \cup {[name |-> n, isLocal |-> FALSE] : n \in remotes \ locals}

\* The test of the scoring loop: a branch is kept when it scores above 0.
keepsScoreNonNegative(sc) == sc >= 0

keepsScore(sc) == sc > 0

\* The scoring loop of SmartCheckout: keep the branches that score above 0.
RECURSIVE scoreBranches(_, _)
scoreBranches(branches, pat) ==
    IF branches = <<>> THEN <<>>
    ELSE LET b == Head(branches)
             sc == calcMatchScore(b.name, pat)
         IN  (IF keepsScore(sc)
              THEN <<[name |-> b.name, isLocal |-> b.isLocal, score |-> sc]>>
              ELSE <<>>)
               \o scoreBranches(Tail(branches), pat)

\* The refresh is attempted when the scoring pass kept nothing.
needsFetchAlways(ms) == TRUE

needsFetch(ms) == Len(ms) = 0

\* The decision: a single match, or a best match more than twice as good as
\* the second.
singleWinnerAtLeastTwice(ms) ==
    Len(ms) = 1 \/ (Len(ms) > 1 /\ ms[1].score >= ms[2].score * 2)

singleWinner(ms) ==
    Len(ms) = 1 \/ (Len(ms) > 1 /\ ms[1].score > ms[2].score * 2)

----------------------------------------------------------------------------
(* Messages and commands of the bubbletea programs *)

\* The form of the checkout of a branch: "checkout name" for a local branch,
\* "checkout -b name origin/name" for a branch that only the remote has.
checkoutCreatesNever(b) == FALSE

checkoutCreates(b) == ~b.isLocal

Msg(t, key, op, name, create) ==
    [t |-> t, key |-> key, op |-> op, name |-> name, create |-> create]

KeyMsg(k) == Msg("key", k, "", <<>>, FALSE)
QuitMsg == Msg("quit", "", "", <<>>, FALSE)
\* The message of tea.ExecProcess; name and create are the checkout
\* arguments its callback closes over.
ExecMsg(op, name, create) == Msg("exec", "", op, name, create)
\* An error value returned by a callback.
ErrMsg == Msg("err", "", "", <<>>, FALSE)
\* A nil message.
NilMsg == Msg("nil", "", "", <<>>, FALSE)
\* The *exec.Cmd value the stash callback returns.
CmdValueMsg(name, create) == Msg("cmdvalue", "", "checkout", name, create)

\* A command is the sequence of messages its goroutine sends to the event
\* loop: nil sends nothing, tea.Quit sends QuitMsg, tea.Sequence(ExecProcess,
\* Quit) sends the exec message and then QuitMsg.
NoCmd == <<>>
QuitCmd == <<QuitMsg>>
SequenceCmd(op, b) == <<ExecMsg(op, b.name, checkoutCreates(b)), QuitMsg>>

Keys == {"enter", "up", "k", "down", "j", "q", "ctrl+c", "esc", "backspace",
         "/", "z"}

\* One executed git command.
GitCmd(op, name, create, forced, res, by) ==
    [op |-> op, name |-> name, create |-> create, force |-> forced,
     res |-> res, by |-> by]

----------------------------------------------------------------------------
(* stashPromptModel *)

createStashPromptModel == [cursor |-> 0, selected |-> FALSE]

\* The choice q and esc commit: "Abort checkout", whatever was highlighted.
abortChoiceKeepsCursor(sp) == [sp EXCEPT !.selected = TRUE]

abortChoice(sp) == [cursor |-> 1, selected |-> TRUE]

\* stashPromptModel.Update
stashPromptUpdate(sp, msg) ==
    IF msg.t # "key" THEN [model |-> sp, cmd |-> NoCmd]
    ELSE IF msg.key \in {"up", "k"}
    THEN [model |-> [sp EXCEPT !.cursor = IF @ > 0 THEN @ - 1 ELSE @],
          cmd |-> NoCmd]
    ELSE IF msg.key \in {"down", "j"}
    THEN [model |-> [sp EXCEPT !.cursor = IF @ < 2 - 1 THEN @ + 1 ELSE @],
          cmd |-> NoCmd]
    ELSE IF msg.key = "enter"
    THEN [model |-> [sp EXCEPT !.selected = TRUE], cmd |-> QuitCmd]
    ELSE IF msg.key \in {"q", "esc"}
    THEN [model |-> abortChoice(sp), cmd |-> QuitCmd]
    ELSE [model |-> sp, cmd |-> NoCmd]

----------------------------------------------------------------------------
(* branchModel *)

\* fuzzy.Find of the sahilm/fuzzy library: the names that hold the characters
\* of the query in order, compared case-insensitively.  The library's relevance
\* ranking is not modelled: the hits keep the order of the names.
fuzzyFind(q, names) ==
    SelectSeq([i \in 1..Len(names) |-> i - 1],
              LAMBDA i : containsSubsequence(ToLower(names[i + 1]), ToLower(q)))

\* The end of filter: the cursor goes back to 0 when it is past the end of a
\* non-empty list of n hits.
resetSelectedNever(sel, n) == sel

resetSelected(sel, n) == IF n > 0 /\ sel >= n THEN 0 ELSE sel

\* branchModel.filter
filter(m, q) ==
    IF q = <<>>
    THEN [m EXCEPT !.query = q,
                   !.filteredIdx = [i \in 1..Len(m.branches) |-> i - 1]]
    ELSE LET hits == fuzzyFind(q, [i \in 1..Len(m.branches) |->
                                      m.branches[i].name])
         IN  [m EXCEPT !.query = q,
                       !.filteredIdx = hits,
                       !.selected = resetSelected(@, Len(hits))]

\* createFilteredBranchModel: every match becomes a branch of the model, in
\* the order of the matches; the list shows them all, the cursor is on the
\* first.
createFilteredBranchModelTiedOnly(ms) ==
    LET tied == SelectSeq(ms, LAMBDA x : x.score = ms[1].score)
    IN  [branches |-> [i \in 1..Len(tied) |->
                         [name |-> tied[i].name, isLocal |-> tied[i].isLocal]],
         selected |-> 0,
         query |-> <<>>,
         filteredIdx |-> [i \in 1..Len(tied) |-> i - 1],
         showStashPrompt |-> FALSE,
         stashPrompt |-> Nil]

createFilteredBranchModel(ms) ==
    [branches |-> [i \in 1..Len(ms) |->
                     [name |-> ms[i].name, isLocal |-> ms[i].isLocal]],
     selected |-> 0,
     query |-> <<>>,
     filteredIdx |-> [i \in 1..Len(ms) |-> i - 1],
     showStashPrompt |-> FALSE,
     stashPrompt |-> Nil]

\* The keys that quit the selector.
quitKeysCtrlCOnly == {"ctrl+c"}

quitKeys == {"ctrl+c", "q"}

\* m.branches[m.filteredIdx[m.selected]]
selectedBranch(m) == m.branches[m.filteredIdx[m.selected + 1] + 1]

\* branchModel.Update.  res is the outcome of the checkout that Enter runs;
\* ran lists the git commands the call executed itself.
Update(m, msg, res) ==
    IF m.showStashPrompt
    THEN LET sp == IF m.stashPrompt = Nil THEN createStashPromptModel
                   ELSE m.stashPrompt
             r == stashPromptUpdate(sp, msg)
             m1 == [m EXCEPT !.stashPrompt = r.model]
         IN  IF r.model.selected
             THEN IF r.model.cursor = 0
                  THEN [m |-> m1, ran |-> <<>>,
                        cmd |-> SequenceCmd("stash", selectedBranch(m1))]
                  ELSE [m |-> m1, ran |-> <<>>, cmd |-> QuitCmd]
             ELSE [m |-> m1, ran |-> <<>>, cmd |-> r.cmd]
    ELSE IF msg.t # "key" THEN [m |-> m, ran |-> <<>>, cmd |-> NoCmd]
    ELSE IF msg.key \in quitKeys
    THEN [m |-> m, ran |-> <<>>, cmd |-> QuitCmd]
    ELSE IF msg.key = "enter"
    THEN IF Len(m.filteredIdx) > 0
         THEN LET b == selectedBranch(m)
                  run == <<GitCmd("checkout", b.name, checkoutCreates(b), FALSE, res,
                                  "selector")>>
              IN  IF res = "overwrite"
                  THEN [m |-> [m EXCEPT !.showStashPrompt = TRUE],
                        ran |-> run, cmd |-> NoCmd]
                  ELSE IF res = "other"
                  THEN [m |-> m, ran |-> run,
                        cmd |-> SequenceCmd("checkout", b)]
                  ELSE [m |-> m, ran |-> run, cmd |-> QuitCmd]
         ELSE [m |-> m, ran |-> <<>>, cmd |-> NoCmd]
    ELSE IF msg.key \in {"up", "k"}
    THEN [m |-> [m EXCEPT !.selected = IF @ > 0 THEN @ - 1 ELSE @],
          ran |-> <<>>, cmd |-> NoCmd]
    ELSE IF msg.key \in {"down", "j"}
    THEN [m |-> [m EXCEPT !.selected =
                    IF @ < Len(m.filteredIdx) - 1 THEN @ + 1 ELSE @],
          ran |-> <<>>, cmd |-> NoCmd]
    ELSE IF msg.key = "backspace"
    THEN [m |-> IF Len(m.query) > 0
                THEN filter(m, SubSeq(m.query, 1, Len(m.query) - 1))
                ELSE m,
          ran |-> <<>>, cmd |-> NoCmd]
    ELSE [m |-> IF Len(msg.key) = 1
                THEN filter(m, m.query \o <<msg.key>>)
                ELSE m,
          ran |-> <<>>, cmd |-> NoCmd]

----------------------------------------------------------------------------
(* A run of gch with a pattern: RootCmd.Run calling SmartCheckout *)

RepoStates ==
    {r \in [locals : SUBSET LocalNames, remotes : SUBSET RemoteNames] :
        Cardinality(r.locals \cup r.remotes) <= MaxBranches}

Init ==
    /\ pattern \in Patterns
    /\ createBranch \in BOOLEAN
    /\ force \in BOOLEAN
    /\ stash \in BOOLEAN
    /\ headOk \in BOOLEAN
    /\ \E r \in RepoStates :
          /\ localNames = r.locals
          /\ remoteNames = r.remotes
    /\ pc = "start"
    /\ firstPass = -1
    /\ matches = <<>>
    /\ decision = "none"
    /\ cmds = <<>>
    /\ err = "nil"
    /\ exitCode = -1
    /\ prompt = Nil
    /\ model = Nil
    /\ inflight = EmptyBag
    /\ lateKeys = 0
    /\ ScorerIdle
    /\ RankerIdle
    /\ MergerIdle

\* SmartCheckout returns e and RootCmd.Run exits: status 1 with the error
\* printed when e is an error, status 0 otherwise.
Return(e) ==
    /\ pc' = "exited"
    /\ err' = e
    /\ exitCode' = IF e = "nil" THEN 0 ELSE 1

\* The error of execGitCommand for an outcome.
ExecErr(res, e) == IF res = "ok" THEN "nil" ELSE e

\* sortMatches followed by the decision of SmartCheckout.
RankAndDecide(scored) ==
    LET ranked == sortMatches(scored)
    IN  /\ matches' = ranked
        /\ IF singleWinner(ranked)
           THEN /\ decision' = "winner"
                /\ pc' = "winner"
                /\ model' = model
           ELSE /\ decision' = "selector"
                /\ pc' = "selector"
                /\ model' = createFilteredBranchModel(ranked)
        /\ UNCHANGED <<err, exitCode>>

\* SmartCheckout with -b: git checkout -b pattern [-f].
CreateBranch ==
    /\ pc = "start"
    /\ createBranch
    /\ \E res \in CheckoutResultsFor(force) :
          /\ cmds' = Append(cmds, GitCmd("checkout", pattern, TRUE, force, res,
                                         "SmartCheckout"))
          /\ Return(ExecErr(res, "checkout failed"))
    /\ UNCHANGED <<remoteNames, firstPass, matches, decision, prompt, model,
                   inflight, lateKeys>>
    /\ UNCHANGED <<scoreVars, rankVars, mergeVars, inputVars>>

\* SmartCheckout up to the decision: list the branches, score them, and
\* either fail, go on to the refresh, or rank and decide.
ListAndScore ==
    /\ pc = "start"
    /\ ~createBranch
    /\ IF ~headOk
       THEN /\ Return("repository access failed")
            /\ UNCHANGED <<firstPass, matches, decision, model>>
       ELSE IF getAllBranches(localNames, remoteNames) = {}
       THEN /\ Return("no branches found")
            /\ UNCHANGED <<firstPass, matches, decision, model>>
       ELSE \E branches \in Orderings(getAllBranches(localNames, remoteNames)) :
              LET scored == scoreBranches(branches, pattern)
              IN  /\ firstPass' = Len(scored)
                  /\ IF needsFetch(scored)
                     THEN /\ pc' = "fetch"
                          /\ UNCHANGED <<matches, decision, model, err,
                                         exitCode>>
                     ELSE RankAndDecide(scored)
    /\ UNCHANGED <<remoteNames, cmds, prompt, inflight, lateKeys>>
    /\ UNCHANGED <<scoreVars, rankVars, mergeVars, inputVars>>

\* The refresh: git fetch, list and score again, then fail with no match or
\* rank and decide.  A successful fetch may bring new remote names.
FetchAndRescore ==
    /\ pc = "fetch"
    /\ \E res \in ExecResults :
          /\ cmds' = Append(cmds, GitCmd("fetch", <<>>, FALSE, FALSE, res,
                                         "SmartCheckout"))
          /\ IF res # "ok"
             THEN /\ Return("failed to fetch remote branches")
                  /\ UNCHANGED <<remoteNames, matches, decision, model>>
             ELSE \E r \in RepoStates :
                    /\ r.locals = localNames
                    /\ remoteNames \subseteq r.remotes
                    /\ remoteNames' = r.remotes
                    /\ \E branches \in
                           Orderings(getAllBranches(localNames, r.remotes)) :
                          LET scored == scoreBranches(branches, pattern)
                          IN  IF Len(scored) = 0
                              THEN /\ Return("no branches match")
                                   /\ UNCHANGED <<matches, decision, model>>
                              ELSE RankAndDecide(scored)
    /\ UNCHANGED <<firstPass, prompt, inflight, lateKeys>>
    /\ UNCHANGED <<scoreVars, rankVars, mergeVars, inputVars>>

\* The checkout command of the single-winner path for the best match.
WinnerCheckout(forced, res) ==
    GitCmd("checkout", matches[1].name, checkoutCreates(matches[1]), forced, res,
           "SmartCheckout")

StashCmd(res, by) == GitCmd("stash", <<>>, FALSE, FALSE, res, by)

\* Single winner with -s: stash, then check out (with -f when forcing).
WinnerStashFirst ==
    /\ pc = "winner"
    /\ stash
    /\ \E sres \in ExecResults, res \in CheckoutResultsFor(force) :
          IF sres # "ok"
          THEN /\ cmds' = Append(cmds, StashCmd(sres, "SmartCheckout"))
               /\ Return("failed to stash changes")
          ELSE /\ cmds' = cmds \o <<StashCmd(sres, "SmartCheckout"),
                                    WinnerCheckout(force, res)>>
               /\ Return(ExecErr(res, "checkout failed"))
    /\ UNCHANGED <<remoteNames, firstPass, matches, decision, prompt, model,
                   inflight, lateKeys>>
    /\ UNCHANGED <<scoreVars, rankVars, mergeVars, inputVars>>

\* Single winner with -f and without -s: git checkout ... -f.
WinnerForce ==
    /\ pc = "winner"
    /\ ~stash
    /\ force
    /\ \E res \in CheckoutResultsFor(TRUE) :
          /\ cmds' = Append(cmds, WinnerCheckout(TRUE, res))
          /\ Return(ExecErr(res, "checkout failed"))
    /\ UNCHANGED <<remoteNames, firstPass, matches, decision, prompt, model,
                   inflight, lateKeys>>
    /\ UNCHANGED <<scoreVars, rankVars, mergeVars, inputVars>>

\* Single winner without -s and -f: try the checkout; when it is refused
\* because changes would be overwritten, start the stash prompt.
WinnerTry ==
    /\ pc = "winner"
    /\ ~stash
    /\ ~force
    /\ \E res \in CheckoutResults :
          /\ cmds' = Append(cmds, WinnerCheckout(FALSE, res))
          /\ IF res = "overwrite"
             THEN /\ pc' = "prompt"
                  /\ prompt' = createStashPromptModel
                  /\ UNCHANGED <<err, exitCode>>
             ELSE /\ Return(ExecErr(res, "git checkout failed"))
                  /\ UNCHANGED prompt
    /\ UNCHANGED <<remoteNames, firstPass, matches, decision, model, inflight,
                   lateKeys>>
    /\ UNCHANGED <<scoreVars, rankVars, mergeVars, inputVars>>

\* A goroutine starts sending the messages of cmd.  Goroutines that only
\* send QuitMsg are interchangeable, so one stands for all of them.
Spawn(bag, cmd) ==
    IF cmd = NoCmd \/ (cmd = QuitCmd /\ BagIn(QuitCmd, bag)) THEN bag
    ELSE bag (+) SetToBag({cmd})

CanSpawn(bag, cmd) ==
    cmd \in {NoCmd, QuitCmd} \/ BagCardinality(bag) < MaxInflight

\* The event loop received the first message of goroutine g.
Received(bag, g) == Spawn(bag (-) SetToBag({g}), Tail(g))

\* The event loop takes a key from the input reader, possibly ahead of the
\* message of a waiting goroutine.
TakeKey ==
    IF inflight = EmptyBag THEN UNCHANGED lateKeys
    ELSE /\ lateKeys < MaxLateKeys
         /\ lateKeys' = lateKeys + 1

\* promptForStash: a key reaches the stash prompt program.
PromptKey ==
    /\ pc = "prompt"
    /\ TakeKey
    /\ \E k \in Keys :
          LET r == stashPromptUpdate(prompt, KeyMsg(k))
          IN  /\ prompt' = r.model
              /\ inflight' = Spawn(inflight, r.cmd)
    /\ UNCHANGED <<remoteNames, pc, firstPass, matches, decision, cmds, err,
                   exitCode, model>>
    /\ UNCHANGED <<scoreVars, rankVars, mergeVars, inputVars>>

\* promptForStash: the prompt program receives QuitMsg and ends; SmartCheckout
\* stashes and retries the checkout, or aborts.
PromptDone ==
    /\ pc = "prompt"
    /\ BagIn(QuitCmd, inflight)
    /\ inflight' = EmptyBag
    /\ IF prompt.cursor = 0
       THEN \E sres \in ExecResults, res \in CheckoutResults :
              IF sres # "ok"
              THEN /\ cmds' = Append(cmds, StashCmd(sres, "SmartCheckout"))
                   /\ Return("failed to stash changes")
              ELSE /\ cmds' = cmds \o <<StashCmd(sres, "SmartCheckout"),
                                        WinnerCheckout(FALSE, res)>>
                   /\ Return(ExecErr(res, "checkout failed"))
       ELSE /\ Return("checkout aborted")
            /\ UNCHANGED cmds
    /\ UNCHANGED <<remoteNames, firstPass, matches, decision, prompt, model,
                   lateKeys>>
    /\ UNCHANGED <<scoreVars, rankVars, mergeVars, inputVars>>

\* The git commands the selector program has executed.
SelectorCmds == SelectSeq(cmds, LAMBDA c : c.by = "selector")

\* The selector program: a key reaches branchModel.Update.
SelectorKey ==
    /\ pc = "selector"
    /\ TakeKey
    /\ \E k \in Keys :
          \E res \in IF k = "enter" THEN CheckoutResults ELSE {"ok"} :
             LET r == Update(model, KeyMsg(k), res)
             IN  /\ Len(r.m.query) <= MaxQuery
                 /\ Len(SelectorCmds) + Len(r.ran) <= MaxCmds
                 /\ CanSpawn(inflight, r.cmd)
                 /\ model' = r.m
                 /\ cmds' = cmds \o r.ran
                 /\ inflight' = Spawn(inflight, r.cmd)
    /\ UNCHANGED <<remoteNames, pc, firstPass, matches, decision, err,
                   exitCode, prompt>>
    /\ UNCHANGED <<scoreVars, rankVars, mergeVars, inputVars>>

\* The selector program receives QuitMsg: p.Run returns a nil error, which
\* SmartCheckout returns; the final model is dropped.
SelectorQuit ==
    /\ pc = "selector"
    /\ \E g \in BagToSet(inflight) : Head(g).t = "quit"
    /\ inflight' = EmptyBag
    /\ lateKeys' = 0
    /\ model' = Nil
    /\ Return("nil")
    /\ UNCHANGED <<remoteNames, firstPass, matches, decision, cmds, prompt>>
    /\ UNCHANGED <<scoreVars, rankVars, mergeVars, inputVars>>

\* The message the callback of an ExecProcess returns for an outcome: the
\* stash callback returns the error or the *exec.Cmd value of the checkout,
\* the checkout callback returns the error, nil on success.
Callback(msg, res) ==
    IF res # "ok" THEN ErrMsg
    ELSE IF msg.op = "stash" THEN CmdValueMsg(msg.name, msg.create)
    ELSE NilMsg

\* The selector program receives an exec message: it runs the process and
\* sends the callback's message from a new goroutine.
SelectorExec ==
    /\ pc = "selector"
    /\ Len(SelectorCmds) < MaxCmds
    /\ \E g \in BagToSet(inflight) :
          /\ Head(g).t = "exec"
          /\ \E res \in IF Head(g).op = "stash" THEN ExecResults
                        ELSE CheckoutResults :
                /\ cmds' = Append(cmds,
                             IF Head(g).op = "stash"
                             THEN StashCmd(res, "selector")
                             ELSE GitCmd("checkout", Head(g).name,
                                         Head(g).create, FALSE, res,
                                         "selector"))
                /\ inflight' = Spawn(Received(inflight, g),
                                     <<Callback(Head(g), res)>>)
    /\ UNCHANGED <<remoteNames, pc, firstPass, matches, decision, err,
                   exitCode, prompt, model, lateKeys>>
    /\ UNCHANGED <<scoreVars, rankVars, mergeVars, inputVars>>

\* The selector program receives a message returned by a callback: a nil
\* message is dropped, any other goes to branchModel.Update.
SelectorCallbackMsg ==
    /\ pc = "selector"
    /\ \E g \in BagToSet(inflight) :
          /\ Head(g).t \in {"err", "nil", "cmdvalue"}
          /\ LET r == IF Head(g).t = "nil"
                      THEN [m |-> model, ran |-> <<>>, cmd |-> NoCmd]
                      ELSE Update(model, Head(g), "ok")
             IN  /\ CanSpawn(Received(inflight, g), r.cmd)
                 /\ model' = r.m
                 /\ inflight' = Spawn(Received(inflight, g), r.cmd)
    /\ UNCHANGED <<remoteNames, pc, firstPass, matches, decision, cmds, err,
                   exitCode, prompt, lateKeys>>
    /\ UNCHANGED <<scoreVars, rankVars, mergeVars, inputVars>>

Next ==
    \/ CreateBranch
    \/ ListAndScore
    \/ FetchAndRescore
    \/ WinnerStashFirst
    \/ WinnerForce
    \/ WinnerTry
    \/ PromptKey
    \/ PromptDone
    \/ SelectorKey
    \/ SelectorQuit
    \/ SelectorExec
    \/ SelectorCallbackMsg

Spec == Init /\ [][Next]_vars

----------------------------------------------------------------------------
(* Properties of the scorer *)

\* C1: a case-insensitively equal branch scores exactly 10000 and every
\* other (branch, pattern) pair scores strictly less than 10000.
ExactMatchDominates ==
    sPc = "scored" =>
        IF ToLower(sBranch) = ToLower(sPattern)
        THEN sScore = 10000
        ELSE sScore < 10000

ExactMatchWitness ==
    /\ sPc = "scored"
    /\ ToLower(sBranch) = ToLower(sPattern)
    /\ sBranch # sPattern
    /\ sScore = 10000

\* The pair is not an exact match, the pattern parses as an integer and the
\* branch contains both "#"+pattern and the decimal digits of the integer.
TicketAndNumberCase ==
    /\ ToLower(sBranch) # ToLower(sPattern)
    /\ AtoiOk(sPattern)
    /\ Contains(sBranch, <<"#">> \o sPattern)
    /\ Contains(sBranch, Itoa(AtoiNum(sPattern)))

\* Rules 3 to 9 (suffix, prefix, '/' token, subsequence, substring, length
\* penalty, common name) for the pair under evaluation.
RemainingRules ==
    commonLoop(suffixBonus(ToLower(sBranch), ToLower(sPattern))
                 + prefixBonus(ToLower(sBranch), ToLower(sPattern))
                 + tokenBonus(ToLower(sBranch), ToLower(sPattern))
                 + subsequenceBonus(ToLower(sBranch), ToLower(sPattern))
                 + substringBonus(ToLower(sBranch), ToLower(sPattern))
                 - lengthPenalty(sBranch),
               TableOrder, 1, ToLower(sBranch), ToLower(sPattern))

\* C2 as stated: with "#"+pattern and the bare digits both present the score
\* is the sum of the +600 and +400 bonuses and of the remaining rules.
TicketAndNumberAdditive ==
    (sPc = "scored" /\ TicketAndNumberCase) =>
        sScore = 600 + 400 + RemainingRules

\* C2 amended: for an integer pattern and a non-exact branch containing
\* "#"+pattern the score is exactly 600, the ticket bonus alone; and with
\* only the decimal digits present it is exactly 400.
TicketScoreAlone ==
    (sPc = "scored" /\ ToLower(sBranch) # ToLower(sPattern)
       /\ AtoiOk(sPattern)) =>
        /\ Contains(sBranch, <<"#">> \o sPattern) => sScore = 600
        /\ (~Contains(sBranch, <<"#">> \o sPattern)
              /\ Contains(sBranch, Itoa(AtoiNum(sPattern)))) => sScore = 400

TicketScoreWitness ==
    /\ sPc = "scored"
    /\ sBranch = <<"f","i","x","/","#","1","2","3","-","b","u","g">>
    /\ sPattern = <<"1","2","3">>
    /\ TicketAndNumberCase
    /\ sScore = 600

\* The pair is not an exact match and the branch ends with the pattern,
\* starts with it, and contains it as a subsequence and as a substring.
AllFourCase ==
    /\ ToLower(sBranch) # ToLower(sPattern)
    /\ HasSuffix(ToLower(sBranch), ToLower(sPattern))
    /\ HasPrefix(ToLower(sBranch), ToLower(sPattern))
    /\ containsSubsequence(ToLower(sBranch), ToLower(sPattern))
    /\ Contains(ToLower(sBranch), ToLower(sPattern))

\* The ticket-number block of calcMatchScore returns for this pair.
NumericReturnCase ==
    /\ AtoiOk(sPattern)
    /\ \/ Contains(sBranch, <<"#">> \o sPattern)
       \/ Contains(sBranch, Itoa(AtoiNum(sPattern)))

\* C3 as stated: whenever all four structural relations hold, digits
\* patterns included, the score holds +1000 +500 +250 +100 before the length
\* penalty.
AllFourCompound ==
    (sPc = "scored" /\ AllFourCase) =>
        sScore >= 1000 + 500 + 250 + 100 - lengthPenalty(sBranch)

\* C3 amended: whenever all four structural relations hold and the
\* ticket-number block does not return (the pattern is no integer, or the
\* branch holds neither "#"+pattern nor the integer's digits), the score is
\* +1000 +500 +250 +100 plus the '/' token and common-name bonuses, minus the
\* length penalty.
AllFourCompoundNonNumeric ==
    (sPc = "scored" /\ AllFourCase /\ ~NumericReturnCase) =>
        /\ sScore >= 1000 + 500 + 250 + 100 - lengthPenalty(sBranch)
        /\ sScore = 1000 + 500 + 250 + 100
                      + tokenBonus(ToLower(sBranch), ToLower(sPattern))
                      - lengthPenalty(sBranch)
                      + commonLoop(0, TableOrder, 1,
                                   ToLower(sBranch), ToLower(sPattern))

AllFourWitness ==
    /\ sPc = "scored"
    /\ AllFourCase
    /\ ~NumericReturnCase
    /\ sBranch = <<"a", "/", "A">>
    /\ sScore = 1000 + 500 + 300 + 250 + 100

\* C9: two evaluations of calcMatchScore on the same (branch, pattern) give
\* the same integer whatever order the commonBranches map is iterated in.
ScoreDeterministic ==
    sPc = "rescored" => sScore = sScore2

ScoreDeterministicWitness ==
    /\ sPc = "rescored"
    /\ sBranch = <<"M","a","i","n">>
    /\ sPattern = <<"m","a">>
    /\ sScore = 500 + 250 + 100 + 50
    /\ sScore2 = sScore

----------------------------------------------------------------------------
(* Properties of the ranker *)

\* C8: after sortMatches the slice is a permutation of its input, scores are
\* non-increasing, and among equal scores no remote-only candidate precedes
\* a local one.
SortedByScoreThenLocal ==
    rPc = "sorted" =>
        /\ Len(rSorted) = Len(rInput)
        /\ {rSorted[i] : i \in 1..Len(rSorted)}
             = {rInput[i] : i \in 1..Len(rInput)}
        /\ \A i, j \in 1..Len(rSorted) :
             i < j =>
               /\ rSorted[i].score >= rSorted[j].score
               /\ (rSorted[i].score = rSorted[j].score /\ rSorted[j].isLocal)
                     => rSorted[i].isLocal

SortedWitness ==
    /\ rPc = "sorted"
    /\ Len(rInput) = 3
    /\ rInput[1].score = 1
    /\ rInput[2].score = 2 /\ ~rInput[2].isLocal
    /\ rInput[3].score = 2 /\ rInput[3].isLocal
    /\ rSorted = <<rInput[3], rInput[2], rInput[1]>>

\* C13 as stated: a second run that ranks the same (name, isLocal, score)
\* candidates, listed in whatever order, produces the same ranked sequence.
RankingDeterministic ==
    rPc = "resorted" => rSorted2 = rSorted

----------------------------------------------------------------------------
(* Properties of a run *)

\* Positions in cmds of the commands with operation op.
CmdsOf(op) == {i \in 1..Len(cmds) : cmds[i].op = op}

\* C4: the best match is checked out without the selector exactly when it
\* is the only match or scores more than twice the second; otherwise the
\* selector is started and SmartCheckout issues no checkout itself.
DecisionPolicy ==
    decision # "none" =>
        /\ Len(matches) >= 1
        /\ decision = "winner" <=>
              (Len(matches) = 1 \/ matches[1].score > 2 * matches[2].score)
        /\ decision = "winner" =>
              /\ model = Nil
              /\ \A i \in 1..Len(cmds) : cmds[i].by = "SmartCheckout"
              /\ \A i \in CmdsOf("checkout") :
                    /\ cmds[i].name = matches[1].name
                    /\ cmds[i].create = ~matches[1].isLocal
        /\ decision = "selector" =>
              /\ pc \in {"selector", "exited"}
              /\ pc = "selector" => model # Nil
              /\ prompt = Nil
              /\ \A i \in CmdsOf("checkout") \cup CmdsOf("stash") :
                    cmds[i].by = "selector"

DecisionBoundaryWitness ==
    /\ pc = "selector"
    /\ decision = "selector"
    /\ Len(matches) = 2
    /\ matches[1].score = 650
    /\ matches[2].score = 325
    /\ model # Nil
    /\ Len(model.branches) = 2

\* C5: git fetch runs at most once in a run, and only after a first scoring
\* pass that kept nothing; when the second pass keeps nothing either the run
\* ends with the no-match failure, with one fetch and no checkout or stash.
FetchAtMostOnce ==
    /\ Cardinality(CmdsOf("fetch")) <= 1
    /\ CmdsOf("fetch") # {} => firstPass = 0
    /\ (pc = "exited" /\ err = "no branches match") =>
          /\ Cardinality(CmdsOf("fetch")) = 1
          /\ CmdsOf("checkout") = {}
          /\ CmdsOf("stash") = {}
    /\ (\E i \in CmdsOf("fetch") : cmds[i].res = "ok") /\ matches = <<>> =>
          /\ pc = "exited"
          /\ err = "no branches match"

NoMatchAfterFetchWitness ==
    /\ pc = "exited"
    /\ err = "no branches match"
    /\ exitCode = 1
    /\ firstPass = 0
    /\ cmds = <<GitCmd("fetch", <<>>, FALSE, FALSE, "ok", "SmartCheckout")>>
    /\ localNames = {nameX}
    /\ matches = <<>>

\* The names of the ranked matches.
MatchNames == {matches[i].name : i \in 1..Len(matches)}

\* C11: every candidate handed to the ranking, the decision and the selector
\* scores above 0: after the first pass and after the pass that follows the
\* refresh every match is a merged branch with a score above 0, every merged
\* branch that is no match scores 0 or less, and the selector lists exactly
\* the matches.
PositiveScoresOnly ==
    /\ \A i \in 1..Len(matches) : matches[i].score > 0
    /\ decision # "none" =>
          /\ \A i \in 1..Len(matches) :
                [name |-> matches[i].name, isLocal |-> matches[i].isLocal]
                    \in getAllBranches(localNames, remoteNames)
          /\ \A b \in getAllBranches(localNames, remoteNames) :
                b.name \notin MatchNames =>
                    calcMatchScore(b.name, pattern) <= 0
    /\ (pc = "selector" /\ model # Nil) =>
          /\ Len(model.branches) = Len(matches)
          /\ \A i \in 1..Len(matches) :
                model.branches[i].name = matches[i].name
    /\ firstPass > 0 => CmdsOf("fetch") = {}

\* A branch that scores -1 was discarded in the first pass and again in the
\* pass after the refresh, which kept a fetched branch.
PositiveScoresWitness ==
    /\ pattern = <<"a">>
    /\ localNames = {nameMiss}
    /\ calcMatchScore(nameMiss, pattern) = -1
    /\ remoteNames = {nameLong}
    /\ firstPass = 0
    /\ Len(cmds) >= 1
    /\ cmds[1] = GitCmd("fetch", <<>>, FALSE, FALSE, "ok", "SmartCheckout")
    /\ decision = "winner"
    /\ matches = <<[name |-> nameLong, isLocal |-> FALSE, score |-> 325]>>

\* C12 as stated: a run without -b in a repository with no local and no
\* remote branch ends with the "no branches" failure, whatever HEAD resolves
\* to, and executes no fetch, checkout or stash.
NoBranchesFailure ==
    (pc = "exited" /\ ~createBranch /\ localNames = {} /\ remoteNames = {}) =>
        /\ err = "no branches found"
        /\ exitCode = 1
        /\ cmds = <<>>

\* The selector is in its Browsing state: the program runs and the stash
\* prompt is not shown.
Browsing == pc = "selector" /\ model # Nil /\ ~model.showStashPrompt

\* C14 as stated: in Browsing, Enter on an empty visible list changes nothing
\* and issues nothing; on a non-empty list it executes the checkout of the
\* highlighted branch once and the outcome alone selects what follows: when
\* refused for local changes the stash prompt is shown and nothing is issued,
\* on success and on any other failure the selector ends (tea.Quit) with
\* nothing else issued.
EnterOutcomeSelectsState ==
    Browsing =>
        \A res \in CheckoutResults :
            LET r == Update(model, KeyMsg("enter"), res)
            IN  IF Len(model.filteredIdx) = 0
                THEN r = [m |-> model, ran |-> <<>>, cmd |-> NoCmd]
                ELSE /\ r.ran = <<GitCmd("checkout",
                                         selectedBranch(model).name,
                                         ~selectedBranch(model).isLocal,
                                         FALSE, res, "selector")>>
                     /\ res = "overwrite" =>
                           /\ r.m = [model EXCEPT !.showStashPrompt = TRUE]
                           /\ r.cmd = NoCmd
                     /\ res # "overwrite" =>
                           /\ r.m = model
                           /\ r.cmd = QuitCmd

\* C15: in Browsing the keys q and ctrl+c return tea.Quit, execute and issue
\* no git command, and leave the branches, the query, the visible list and
\* the cursor as they are; a selector that was quit before any Enter has
\* executed no checkout and no stash.
QuitKeyFrame ==
    /\ Browsing =>
          \A k \in {"q", "ctrl+c"} :
              Update(model, KeyMsg(k), "ok")
                  = [m |-> model, ran |-> <<>>, cmd |-> QuitCmd]
    /\ (decision = "selector" /\ SelectorCmds = <<>>) =>
          /\ CmdsOf("checkout") = {}
          /\ CmdsOf("stash") = {}
          /\ \A g \in BagToSet(inflight) : g = QuitCmd

\* The quit key was pressed in Browsing with a filter typed: tea.Quit is on
\* its way and no git command was executed.
QuitPendingWitness ==
    /\ Browsing
    /\ model.query = <<"/">>
    /\ model.filteredIdx = <<1>>
    /\ BagIn(QuitCmd, inflight)
    /\ cmds = <<>>

\* C16 as stated: in Browsing every key of one character, the letters j, k
\* and q included, is appended to the query and the visible list is
\* recomputed for the new query, with no command issued.
EveryCharIsTyped ==
    Browsing =>
        \A k \in {c \in Keys : Len(c) = 1} :
            Update(model, KeyMsg(k), "ok")
                = [m |-> filter(model, model.query \o <<k>>),
                   ran |-> <<>>, cmd |-> NoCmd]

\* C17: while the selector runs the cursor is never negative and, whenever
\* the visible list is non-empty, below its length, and every visible entry
\* is an index of a branch, so Enter indexes an existing entry; in Browsing up
\* (or k) at 0 and down (or j) at the last entry change nothing; and typing a
\* character or backspace that leaves the cursor past the end of a non-empty
\* list puts it at 0.
CursorInBounds ==
    /\ (pc = "selector" /\ model # Nil) =>
          /\ model.selected >= 0
          /\ Len(model.filteredIdx) > 0 =>
                model.selected <= Len(model.filteredIdx) - 1
          /\ \A i \in 1..Len(model.filteredIdx) :
                model.filteredIdx[i] \in 0..(Len(model.branches) - 1)
    /\ Browsing =>
          /\ model.selected = 0 =>
                \A k \in {"up", "k"} :
                    Update(model, KeyMsg(k), "ok").m = model
          /\ model.selected >= Len(model.filteredIdx) - 1 =>
                \A k \in {"down", "j"} :
                    Update(model, KeyMsg(k), "ok").m = model
          /\ \A k \in {"/", "z", "backspace"} :
                LET m2 == Update(model, KeyMsg(k), "ok").m
                IN  /\ Len(m2.filteredIdx) > 0 =>
                          m2.selected <= Len(m2.filteredIdx) - 1
                    /\ (Len(m2.filteredIdx) > 0
                          /\ model.selected >= Len(m2.filteredIdx)) =>
                          m2.selected = 0

\* The cursor is on the last of two entries and typing "/" leaves one entry:
\* the recomputation puts the cursor at 0.
CursorResetWitness ==
    /\ Browsing
    /\ model.query = <<>>
    /\ Len(model.filteredIdx) = 2
    /\ model.selected = 1
    /\ Update(model, KeyMsg("/"), "ok").m.filteredIdx = <<1>>
    /\ Update(model, KeyMsg("/"), "ok").m.selected = 0

\* The selector shows its stash prompt.
ConflictPrompt == pc = "selector" /\ model # Nil /\ model.showStashPrompt

\* The stash prompt the selector shows: created on the first message.
ShownPrompt ==
    IF model.stashPrompt = Nil THEN createStashPromptModel
    ELSE model.stashPrompt

QuitIssued ==
    /\ pc = "selector"
    /\ \E g \in BagToSet(inflight) : Head(g).t = "quit"

\* C19 as stated: once shown, the stash prompt stays the one prompt of the
\* run until the program ends (it is not left and shown again, and not
\* created anew); and once the quit is issued no later event is handled as
\* Browsing or as the prompt: until the program ends the model stays as it
\* is and no git command is executed.
DoneIsFinal ==
    [][/\ ConflictPrompt =>
             \/ pc' = "exited"
             \/ /\ model' # Nil
                /\ model'.showStashPrompt
                /\ model.stashPrompt # Nil => model'.stashPrompt # Nil
       /\ QuitIssued =>
             \/ pc' = "exited"
             \/ /\ model' = model
                /\ cmds' = cmds]_vars

\* A choice of the selector's stash prompt has been committed.
ChoiceCommitted ==
    /\ ConflictPrompt
    /\ model.stashPrompt # Nil
    /\ model.stashPrompt.selected

\* The goroutines of a bag that are about to hand a git command (an
\* ExecProcess message) to the event loop.
ExecPending(bag) == {g \in BagToSet(bag) : Head(g).t = "exec"}

\* C20 as stated: the selector has at most one stash or checkout waiting to
\* be executed at a time, and once a choice of the stash prompt is committed
\* no message handled before the program ends issues another stash or
\* checkout.
NoCommandAfterChoice ==
    [][/\ pc = "selector" =>
             /\ Cardinality(ExecPending(inflight)) <= 1
             /\ \A g \in ExecPending(inflight) : CopiesIn(g, inflight) = 1
       /\ (ChoiceCommitted /\ pc' = "selector") =>
             \A g \in ExecPending(inflight') :
                 CopiesIn(g, inflight') <= CopiesIn(g, inflight)]_vars

\* C6 as stated: once the selector has stashed on "stash and retry", it
\* executes the checkout that was refused, same branch and same form, exactly
\* once more before it ends.
StashThenRetryOnce ==
    pc = "exited" =>
        \A i \in CmdsOf("stash") :
            (cmds[i].by = "selector" /\ cmds[i].res = "ok") =>
                /\ i > 1
                /\ cmds[i - 1].op = "checkout"
                /\ cmds[i - 1].res = "overwrite"
                /\ Cardinality({j \in CmdsOf("checkout") :
                                   /\ j > i
                                   /\ cmds[j].name = cmds[i - 1].name
                                   /\ cmds[j].create = cmds[i - 1].create}) = 1

\* C7 as stated: with -f every checkout carries the force modifier and the
\* stash prompt is never shown, neither by SmartCheckout nor by the selector.
ForceAlwaysForces ==
    force =>
        /\ \A i \in CmdsOf("checkout") : cmds[i].force
        /\ pc # "prompt"
        /\ model # Nil => ~model.showStashPrompt

\* The selector ended after a checkout that succeeded.
SelectorSucceeded ==
    /\ SelectorCmds # <<>>
    /\ SelectorCmds[Len(SelectorCmds)].op = "checkout"
    /\ SelectorCmds[Len(SelectorCmds)].res = "ok"

\* C10 as stated: after a selector run the process exits with status 0 when
\* the checkout succeeded and with an error and a non-zero status when the
\* selector was cancelled or a checkout or stash failed.
SelectorOutcomeSetsExit ==
    (pc = "exited" /\ decision = "selector") =>
        /\ SelectorSucceeded => (err = "nil" /\ exitCode = 0)
        /\ ~SelectorSucceeded => (err # "nil" /\ exitCode # 0)

\* C21: the step that decides for the selector starts it with a model that
\* holds every ranked match, in ranked order and with its locality, an empty
\* query, every match visible in that order, the cursor at 0 and no stash
\* prompt.
SelectorSeeded ==
    [][(decision = "none" /\ decision' = "selector") =>
          /\ pc' = "selector"
          /\ Len(matches') >= 2
          /\ model' = [branches |->
                          [i \in 1..Len(matches') |->
                              [name |-> matches'[i].name,
                               isLocal |-> matches'[i].isLocal]],
                       selected |-> 0,
                       query |-> <<>>,
                       filteredIdx |-> [i \in 1..Len(matches') |-> i - 1],
                       showStashPrompt |-> FALSE,
                       stashPrompt |-> Nil]]_vars

\* The selector has just started with a match of score 850 and one of score
\* 650: both are listed, the better one first.
SelectorSeededWitness ==
    /\ pc = "selector"
    /\ cmds = <<>>
    /\ inflight = EmptyBag
    /\ matches = <<[name |-> nameAX, isLocal |-> TRUE, score |-> 850],
                   [name |-> nameToken, isLocal |-> FALSE, score |-> 650]>>
    /\ model = [branches |-> <<[name |-> nameAX, isLocal |-> TRUE],
                               [name |-> nameToken, isLocal |-> FALSE]>>,
                selected |-> 0,
                query |-> <<>>,
                filteredIdx |-> <<0, 1>>,
                showStashPrompt |-> FALSE,
                stashPrompt |-> Nil]

\* The checkout executed as command i has the form of its branch: the
\* branch is one of the matches, and the command creates the branch from
\* origin exactly when the branch is not local.
FormOfBranch(name, create) ==
    /\ \E j \in 1..Len(matches) :
          /\ matches[j].name = name
          /\ create = ~matches[j].isLocal
    /\ create = (name \notin localNames)

\* C22: every checkout executed or issued for a match, by the single-winner
\* path, by Enter in the selector or as a retry, is a plain checkout of the
\* name for a local branch and a checkout -b name origin/name for a
\* remote-only branch; the checkout after the stash the user chose in the
\* prompt, and the one the selector issues or builds after a failed attempt,
\* have the name and the form of an attempt that failed.
CheckoutFormByLocality ==
    decision # "none" =>
        /\ \A i \in CmdsOf("checkout") :
              FormOfBranch(cmds[i].name, cmds[i].create)
        /\ \A i \in CmdsOf("checkout") :
              (i > 2 /\ cmds[i].by = "SmartCheckout" /\ ~stash
                 /\ cmds[i - 1].op = "stash") =>
                  /\ cmds[i - 2].op = "checkout"
                  /\ cmds[i - 2].res = "overwrite"
                  /\ cmds[i].name = cmds[i - 2].name
                  /\ cmds[i].create = cmds[i - 2].create
        /\ \A g \in BagToSet(inflight) :
              Head(g).t \in {"exec", "cmdvalue"} =>
                  /\ FormOfBranch(Head(g).name, Head(g).create)
                  /\ \E i \in CmdsOf("checkout") :
                        /\ cmds[i].by = "selector"
                        /\ cmds[i].res # "ok"
                        /\ cmds[i].name = Head(g).name
                        /\ cmds[i].create = Head(g).create

\* The single winner is a remote-only branch: its checkout was refused, the
\* changes were stashed and the same checkout -b was executed again.
RetrySameFormWitness ==
    /\ decision = "winner"
    /\ ~matches[1].isLocal
    /\ Len(cmds) = 3
    /\ cmds[1] = GitCmd("checkout", nameLong, TRUE, FALSE, "overwrite",
                        "SmartCheckout")
    /\ cmds[2].op = "stash"
    /\ cmds[3] = GitCmd("checkout", nameLong, TRUE, FALSE, "ok",
                        "SmartCheckout")

----------------------------------------------------------------------------
(* Properties of getAllBranches *)

\* C23: the slice getAllBranches returns holds every name of the local and
\* of the remote list exactly once; an entry is local exactly when its name
\* is in the local list, so a name in both lists is the local entry; a
\* remote-only entry is not current; and an entry is current exactly when it
\* is local and its name is the current branch.  Without the Current flag it
\* is the set of branches SmartCheckout scores.
MergedBranchSet ==
    gPc = "merged" =>
        /\ {result[i].name : i \in 1..Len(result)}
              = Elems(localBranches) \cup Elems(remoteBranches)
        /\ Len(result)
              = Cardinality(Elems(localBranches) \cup Elems(remoteBranches))
        /\ \A i \in 1..Len(result) :
              /\ result[i].isLocal = (result[i].name \in Elems(localBranches))
              /\ ~result[i].isLocal => ~result[i].current
              /\ result[i].current
                    = (result[i].isLocal /\ result[i].name = currentBranch)
        /\ {[name |-> result[i].name, isLocal |-> result[i].isLocal] :
               i \in 1..Len(result)}
              = getAllBranches(Elems(localBranches), Elems(remoteBranches))

\* "main" is the current branch and is in both lists, "dev" is remote only.
MergedWitness ==
    /\ gPc = "merged"
    /\ localBranches = <<nameMain>>
    /\ remoteBranches = <<nameDev, nameMain>>
    /\ currentBranch = nameMain
    /\ Elems(result) = {[name |-> nameMain, isLocal |-> TRUE, current |-> TRUE],
                        [name |-> nameDev, isLocal |-> FALSE,
                         current |-> FALSE]}

----------------------------------------------------------------------------
(* The reference score *)

\* The common names that equal the lower-cased branch and contain the
\* lower-cased pattern.
CommonHits(bl, pl) ==
    {k \in 1..Len(commonBranches) :
        bl = commonBranches[k].name /\ Contains(commonBranches[k].name, pl)}

\* The sum of rules 3 to 9 for a lower-cased branch bl of a branch with n
\* characters and a lower-cased pattern pl.
ReferenceSum(bl, pl, n) ==
    (IF HasSuffix(bl, pl) THEN 1000 ELSE 0)
      + (IF HasPrefix(bl, pl) THEN 500 ELSE 0)
      + (IF Contains(bl, <<"/">> \o pl) \/ Contains(bl, pl \o <<"/">>)
         THEN 300 ELSE 0)
      + (IF containsSubsequence(bl, pl) THEN 250 ELSE 0)
      + (IF Contains(bl, pl) THEN 100 ELSE 0)
      - (n \div 5)
      + (IF CommonHits(bl, pl) = {} THEN 0
         ELSE commonBranches[CHOOSE k \in CommonHits(bl, pl) : TRUE].bonus)

----------------------------------------------------------------------------
(* The single-winner path without -f and -s *)

\* The stash prompt of promptForStash holds a committed choice.
PromptCommitted(c) ==
    /\ pc = "prompt"
    /\ prompt.selected
    /\ prompt.cursor = c

\* C25 as stated: in the single-winner path without -f and -s the checkout
\* is attempted once; a success or a failure of another kind ends the run
\* with nothing else executed; a refusal for local changes starts the prompt,
\* and nothing is executed while no choice is committed; once "abort" is
\* committed the choice stands and the run ends with "checkout aborted" and
\* nothing executed; once "stash" is committed the choice stands and the run
\* ends with a failed stash alone, or with one stash and one more execution
\* of the same checkout.
SingleWinnerPromptFlow ==
    [][(decision = "winner" /\ ~force /\ ~stash) =>
          /\ pc = "winner" =>
                /\ Len(cmds') = Len(cmds) + 1
                /\ cmds'[Len(cmds')].op = "checkout"
                /\ cmds'[Len(cmds')].name = matches[1].name
                /\ cmds'[Len(cmds')].create = ~matches[1].isLocal
                /\ IF cmds'[Len(cmds')].res = "overwrite"
                   THEN pc' = "prompt" /\ prompt' = createStashPromptModel
                   ELSE /\ pc' = "exited"
                        /\ (err' = "nil") = (cmds'[Len(cmds')].res = "ok")
          /\ (pc = "prompt" /\ ~prompt.selected) =>
                /\ pc' = "prompt"
                /\ cmds' = cmds
          /\ PromptCommitted(1) =>
                /\ cmds' = cmds
                /\ pc' = "prompt" => prompt'.cursor = 1
                /\ pc' = "exited" => err' = "checkout aborted"
          /\ PromptCommitted(0) =>
                /\ pc' = "prompt" => (prompt'.cursor = 0 /\ cmds' = cmds)
                /\ pc' = "exited" =>
                      \/ /\ cmds' = Append(cmds, StashCmd("other",
                                                          "SmartCheckout"))
                         /\ err' = "failed to stash changes"
                      \/ \E res \in CheckoutResults :
                            /\ cmds' = cmds \o
                                 <<StashCmd("ok", "SmartCheckout"),
                                   [cmds[Len(cmds)] EXCEPT !.res = res]>>
                            /\ (err' = "nil") = (res = "ok")]_vars

----------------------------------------------------------------------------
(* The single winner *)

\* C26: when SmartCheckout declares a single winner among two or more
\* matches, the winner scores strictly more than every other match, and
\* the same branch is the single winner for every order in which the
\* matches can reach sortMatches and for every order among equal scores.
WinnerStrictlyBest ==
    (decision = "winner" /\ Len(matches) >= 2) =>
        /\ \A i \in 2..Len(matches) : matches[1].score > matches[i].score
        /\ \A order \in Orderings(Elems(matches)) :
              /\ singleWinner(sortMatches(order))
              /\ sortMatches(order)[1] = matches[1]
              /\ (\A i, j \in 1..Len(order) :
                     i < j => order[i].score >= order[j].score)
                    => order[1] = matches[1]

\* The exact match "x" declared the winner over a remote-only branch and
\* checked out by the run.
WinnerStrictlyBestWitness ==
    /\ pc = "exited"
    /\ decision = "winner"
    /\ Len(matches) = 2
    /\ matches[1].name = nameX
    /\ matches[1].score > 2 * matches[2].score
    /\ ~matches[2].isLocal
    /\ Len(cmds) = 1
    /\ cmds[1].op = "checkout"
    /\ cmds[1].name = matches[1].name
    /\ cmds[1].res = "ok"

----------------------------------------------------------------------------
(* Structural matches *)

\* p occurs in b as an in-order subsequence.
IsSubsequence(p, b) ==
    \E f \in [1..Len(p) -> 1..Len(b)] :
        /\ \A i, j \in 1..Len(p) : i < j => f[i] < f[j]
        /\ \A i \in 1..Len(p) : b[f[i]] = p[i]

\* The decimal digits of an integer, without its sign.
DigitsOf(n) == NatDigits(IF n < 0 THEN 0 - n ELSE n)

\* The pattern is a subsequence of the branch, case ignored, or it is an
\* integer and the branch holds "#" and the pattern or the integer's digits.
StructuralMatch(branch, pat) ==
    \/ IsSubsequence(ToLower(pat), ToLower(branch))
    \/ /\ AtoiOk(pat)
       /\ \/ Contains(branch, <<"#">> \o pat)
          \/ Contains(branch, DigitsOf(AtoiNum(pat)))

\* C27: a score above zero is given only to a branch that structurally
\* matches the pattern; a branch without such a relation scores at most
\* zero.
OnlyStructuralMatchesScore ==
    sPc # "input" =>
        /\ sScore > 0 => StructuralMatch(sBranch, sPattern)
        /\ ~StructuralMatch(sBranch, sPattern) => sScore <= 0

\* "a1" against "01": the pattern is the integer 1, whose digit the branch
\* holds, and it is not a subsequence of the branch.
NumberNotSubsequenceWitness ==
    /\ sPc = "scored"
    /\ sBranch = <<"a", "1">>
    /\ sPattern = <<"0", "1">>
    /\ ~IsSubsequence(ToLower(sPattern), ToLower(sBranch))
    /\ sScore = 400

----------------------------------------------------------------------------
(* The visible list of the selector *)

\* The keys whose String() is one character long.
CharKeys == {k \in Keys : Len(k) = 1}

\* Typing the character c and then backspace, as two calls of Update.
TypeThenBackspace(m, c) ==
    Update(Update(m, KeyMsg(c), "ok").m, KeyMsg("backspace"), "ok").m

\* C28 as stated: in Browsing the visible list is the filter result of the
\* query over the branches the selector was seeded with, its entries are
\* distinct indices of branches, an empty query shows every branch in seed
\* order, no key changes the branches, and typing any character and then
\* backspace gives back the query and the visible list.
VisibleListIsFilterResult ==
    Browsing =>
        /\ model.branches = createFilteredBranchModel(matches).branches
        /\ model.filteredIdx = filter(model, model.query).filteredIdx
        /\ \A i \in 1..Len(model.filteredIdx) :
              /\ model.filteredIdx[i] \in 0..(Len(model.branches) - 1)
              /\ \A j \in 1..Len(model.filteredIdx) :
                    i # j => model.filteredIdx[i] # model.filteredIdx[j]
        /\ model.query = <<>> =>
              model.filteredIdx = [i \in 1..Len(model.branches) |-> i - 1]
        /\ \A k \in Keys : \A res \in CheckoutResults :
              Update(model, KeyMsg(k), res).m.branches = model.branches
        /\ \A c \in CharKeys :
              /\ TypeThenBackspace(model, c).query = model.query
              /\ TypeThenBackspace(model, c).filteredIdx = model.filteredIdx

----------------------------------------------------------------------------
(* Executions of the checkout in the selector *)

\* The goroutines about to hand a checkout to the event loop.
CheckoutsPending(bag) == {g \in ExecPending(bag) : Head(g).op = "checkout"}

\* C29 as stated: a step of the selector executes at most one git command,
\* and a checkout is executed only by the handling of Enter in Browsing on a
\* non-empty visible list, for the highlighted branch in its form; no
\* checkout is executed by running a command that an earlier Enter left
\* behind.
EnterExecutesCheckoutOnce ==
    [][pc = "selector" =>
          /\ Len(cmds') <= Len(cmds) + 1
          /\ (Len(cmds') = Len(cmds) + 1
                /\ cmds'[Len(cmds')].op = "checkout") =>
                /\ Browsing
                /\ Len(model.filteredIdx) > 0
                /\ cmds'[Len(cmds')].name = selectedBranch(model).name
                /\ cmds'[Len(cmds')].create = ~selectedBranch(model).isLocal
                /\ CheckoutsPending(inflight)
                      \subseteq CheckoutsPending(inflight')]_vars

====
